---- MODULE Spec2Model ----
(***************************************************************************)
(* Model of the `ov` crate (src/src/lib.rs): the five forwarding traits    *)
(* Over, OverRef, OverMut, OverDeref and OverDerefMut, each with one       *)
(* method that hands a view of the receiver to a caller-supplied FnOnce    *)
(* and returns what it returns.                                            *)
(*                                                                         *)
(* The caller's memory is a small heap of named cells.  Cell "v" is the    *)
(* receiver binding; cells "a" and "b" are what v may point to (the target *)
(* of a Box, of a String, or of a `&mut`).  A reference is a value that    *)
(* names a cell, so `&self` is a reference to cell "v" and                 *)
(* `Deref::deref(self)` is a reference to the cell v points to.            *)
(*                                                                         *)
(* Every call is the trait method applied to the binding v, with Self the  *)
(* type of the value v holds (Trait::method(v, f)).  The transformation    *)
(* functions are the ones of the crate's doc tests (Some, Err, the         *)
(* multiply-and-add closure, str::len, mem::replace) and a few more of the *)
(* same kinds; every one of them is counted when it runs.                  *)
(***************************************************************************)
EXTENDS Integers, Sequences, FiniteSets, TLC

\* ------------------------------------------------------------------ bounds
IntBits == 7
MaxOps == 3
MaxWrap == 2

Modulus == 2 ^ IntBits
MaxInt == (2 ^ (IntBits - 1)) - 1
MinInt == 0 - (2 ^ (IntBits - 1))

\* two's complement wrap-around of the integer type at the modelled width
Wrap(n) == ((n - MinInt) % Modulus) + MinInt
Overflows(n) == n > MaxInt \/ n < MinInt

\* ------------------------------------------------------------------ values
Locs == {"v", "a", "b"}

Val(k, n, loc, s) == [k |-> k, n |-> n, loc |-> loc, s |-> s, ctor |-> <<>>]
IntV(n) == Val("int", n, "none", <<>>)
BoxV(l) == Val("box", 0, l, <<>>)
StringV(l) == Val("string", 0, l, <<>>)
StrV(s) == Val("str", 0, "none", s)
RefV(l) == Val("ref", 0, l, <<>>)
RefMutV(l) == Val("refmut", 0, l, <<>>)
UnitV == Val("unit", 0, "none", <<>>)
TypeV(s) == Val("type", 0, "none", s)
PanicV(msg) == Val("panic", 0, "none", <<msg>>)
Moved == Val("moved", 0, "none", <<>>)
Uninit == Val("uninit", 0, "none", <<>>)
NoneYet == Val("none", 0, "none", <<>>)

\* an enum or tuple-struct constructor applied to a value (Some, Err)
Ctor(c, val) == [val EXCEPT !.ctor = <<c>> \o val.ctor]

Hello == <<"H", "e", "l", "l", "o", ",", " ", "w", "o", "r", "l", "d", "!">>
Foo == <<"f", "o", "o">>
SampleStrs == {<<>>, Foo, Hello}
SampleInts == {0, 5, 21, MaxInt}

IsCopy(val) == val.k \in {"int", "unit", "type"}
IsPanic(val) == val.k = "panic"
IsErr(val) == val.ctor # <<>> /\ Head(val.ctor) = "Err"
IsFailure(val) == IsPanic(val) \/ IsErr(val)
IsPlainInt(val) == val.k = "int" /\ val.ctor = <<>>
IsPointer(val) == val.k \in {"box", "string", "refmut", "ref"} /\ val.ctor = <<>>

\* the static type of a value, as the chain of its wrappers
RECURSIVE TypeOf(_, _)
TypeOf(h, val) ==
  val.ctor \o
    (CASE val.k = "int" -> <<"i32">>
       [] val.k = "str" -> <<"str">>
       [] val.k = "string" -> <<"String">>
       [] val.k = "box" -> <<"Box">> \o TypeOf(h, h[val.loc])
       [] val.k = "refmut" -> <<"&mut">> \o TypeOf(h, h[val.loc])
       [] val.k = "ref" -> <<"&">> \o TypeOf(h, h[val.loc])
       [] OTHER -> <<val.k>>)

\* --------------------------------------------- the transformation functions
Fn(nm, y) == [nm |-> nm, y |-> y]
Fns ==
  {Fn(nm, 0) : nm \in {"some", "err", "double", "read", "len", "type_name",
                        "mul3add1", "fail"}}
    \cup {Fn("replace", y) : y \in {0, 7}}
NoFn == Fn("none", 0)

Mutates(f) == f.nm \in {"mul3add1", "replace"}

\* the type check of the call f(arg): which arguments f's parameter admits
Accepts(f, arg, h) ==
  CASE f.nm \in {"some", "err"} ->
         arg.k \in {"int", "unit", "box", "string"} /\ Len(arg.ctor) < MaxWrap
    [] f.nm = "double" -> IsPlainInt(arg)
    [] f.nm = "read" ->
         arg.k \in {"ref", "refmut"} /\ arg.ctor = <<>> /\ IsPlainInt(h[arg.loc])
    [] f.nm = "len" -> arg.k = "ref" /\ arg.ctor = <<>> /\ h[arg.loc].k = "str"
    [] f.nm = "type_name" -> arg.k \in {"ref", "refmut"} /\ arg.ctor = <<>>
    [] f.nm \in {"mul3add1", "replace"} ->
         arg.k = "refmut" /\ arg.ctor = <<>> /\ IsPlainInt(h[arg.loc])
    [] f.nm = "fail" -> arg.k \notin {"moved", "uninit", "none", "panic"}
    [] OTHER -> FALSE

FnResult(out, h) == [out |-> out, heap |-> h]

\* |n| { *n *= 3; *n += 1; } : each arithmetic step either overflows (a panic
\* in a build with overflow checks, a wrap-around otherwise) or is stored.
MulThreeAddOne(arg, h, checks) ==
  LET n == h[arg.loc].n
      m == n * 3
      h1 == [h EXCEPT ![arg.loc] = IntV(Wrap(m))]
      k == Wrap(m) + 1
      h2 == [h1 EXCEPT ![arg.loc] = IntV(Wrap(k))]
  IN  IF Overflows(m) /\ checks THEN FnResult(PanicV("overflow"), h)
      ELSE IF Overflows(k) /\ checks THEN FnResult(PanicV("overflow"), h1)
      ELSE FnResult(UnitV, h2)

\* what f does with the argument it was given: its outcome and the memory
\* it leaves
Apply(f, arg, h, checks) ==
  CASE f.nm = "some" -> FnResult(Ctor("Some", arg), h)
    [] f.nm = "err" -> FnResult(Ctor("Err", arg), h)
    [] f.nm = "double" ->
         IF Overflows(arg.n * 2) /\ checks
         THEN FnResult(PanicV("overflow"), h)
         ELSE FnResult(IntV(Wrap(arg.n * 2)), h)
    [] f.nm = "read" -> FnResult(h[arg.loc], h)
    [] f.nm = "len" -> FnResult(IntV(Len(h[arg.loc].s)), h)
    [] f.nm = "type_name" -> FnResult(TypeV(TypeOf(h, h[arg.loc])), h)
    [] f.nm = "mul3add1" -> MulThreeAddOne(arg, h, checks)
    [] f.nm = "replace" ->
         FnResult(h[arg.loc], [h EXCEPT ![arg.loc] = IntV(f.y)])
    [] f.nm = "fail" -> FnResult(PanicV("oh no!"), h)
    [] OTHER -> FnResult(PanicV("no such function"), h)

\* ------------------------------------------------------------ the five ops
\* One invocation f(view): what f returned (fout), what the method returns
\* (out), the memory afterwards, the view f saw, and the number of times f ran.
InvokeTwice(f, view, h, checks) ==
  LET r1 == Apply(f, view, h, checks)
      r == Apply(f, view, r1.heap, checks)
  IN  [out |-> r.out, fout |-> r.out, heap |-> r.heap, seen |-> view, n |-> 2]

InvokeCatching(f, view, h, checks) ==
  LET r == Apply(f, view, h, checks)
  IN  [out |-> IF IsPanic(r.out) THEN UnitV ELSE r.out, fout |-> r.out,
       heap |-> r.heap, seen |-> view, n |-> 1]

Invoke(f, view, h, checks) ==
  LET r == Apply(f, view, h, checks)
  IN  [out |-> r.out, fout |-> r.out, heap |-> r.heap, seen |-> view, n |-> 1]

\* `self` by value: the receiver is moved out of its binding unless it is Copy
TakeSelf(h) == IF IsCopy(h["v"]) THEN h ELSE [h EXCEPT !["v"] = Moved]

\* Deref::deref / DerefMut::deref_mut of the receiver: one step, to its target
RECURSIVE Innermost(_, _)
Innermost(h, l) == IF IsPointer(h[l]) THEN Innermost(h, h[l].loc) ELSE l

DerefAllLevels(h) == RefV(Innermost(h, h["v"].loc))
Deref(h) == RefV(h["v"].loc)

DerefMutNoStep(h) == RefMutV("v")
DerefMut(h) == RefMutV(h["v"].loc)

over_passing_ref(f, h, checks) == Invoke(f, RefV("v"), h, checks)
over_on_copy(f, h, checks) ==
  [Invoke(f, h["v"], TakeSelf(h), checks) EXCEPT !.heap = TakeSelf(h)]
over(f, h, checks) == Invoke(f, h["v"], TakeSelf(h), checks)
over_ref_consuming(f, h, checks) == Invoke(f, RefV("v"), TakeSelf(h), checks)
over_ref(f, h, checks) == Invoke(f, RefV("v"), h, checks)
over_mut_on_copy(f, h, checks) ==
  [Invoke(f, RefMutV("v"), h, checks) EXCEPT !.heap = h]
over_mut(f, h, checks) == Invoke(f, RefMutV("v"), h, checks)
over_deref_no_step(f, h, checks) == Invoke(f, RefV("v"), h, checks)
over_deref(f, h, checks) == Invoke(f, Deref(h), h, checks)
over_deref_mut_taking(f, h, checks) ==
  LET r == Invoke(f, DerefMut(h), h, checks)
      l == h["v"].loc
  IN  IF IsPlainInt(r.heap[l])
      THEN [r EXCEPT !.heap = [r.heap EXCEPT ![l] = IntV(0)]]
      ELSE r
over_deref_mut(f, h, checks) == Invoke(f, DerefMut(h), h, checks)

\* the view each method is declared to pass, for the type check at the call
ViewOf(op, h) ==
  CASE op = "over" -> h["v"]
    [] op = "over_ref" -> RefV("v")
    [] op = "over_mut" -> RefMutV("v")
    [] op = "over_deref" -> RefV(h["v"].loc)
    [] op = "over_deref_mut" -> RefMutV(h["v"].loc)

Usable(h) == h["v"].k \notin {"moved", "uninit", "none", "panic"}
\* T: Deref / T: DerefMut
HasDeref(h) == IsPointer(h["v"])
HasDerefMut(h) == IsPointer(h["v"]) /\ h["v"].k # "ref"

\* ------------------------------------------------------------------- state
VARIABLES heap, ret, calls, ops, overflowChecks, last, same

vars == <<heap, ret, calls, ops, overflowChecks, last, same>>

EmptyHeap == [l \in Locs |-> Uninit]
Shape(v, a, b) == [EmptyHeap EXCEPT !["v"] = v, !["a"] = a, !["b"] = b]
Heaps(ints, strs) ==
  {Shape(IntV(n), Uninit, Uninit) : n \in ints}
    \cup {Shape(BoxV("a"), IntV(n), Uninit) : n \in ints}
    \cup {Shape(BoxV("a"), BoxV("b"), IntV(n)) : n \in ints}
    \cup {Shape(RefMutV("a"), IntV(n), Uninit) : n \in ints}
    \cup {Shape(RefMutV("a"), BoxV("b"), IntV(n)) : n \in ints}
    \cup {Shape(StringV("a"), StrV(s), Uninit) : s \in strs}
InitHeaps == Heaps(SampleInts, SampleStrs)
\* receivers bound after the first: one of every layout, or the value the
\* previous call was made on
LaterHeaps(prev) == Heaps({5}, {Hello}) \cup {prev}

NoCall ==
  [op |-> "none", f |-> NoFn, pre |-> EmptyHeap, seen |-> NoneYet,
   fout |-> NoneYet, ret |-> NoneYet]

Init ==
  /\ heap \in InitHeaps
  /\ ret = NoneYet
  /\ calls = 0
  /\ ops = 0
  /\ overflowChecks \in BOOLEAN
  /\ last = NoCall
  /\ same = FALSE

RefOps == {"over_ref", "over_mut", "over_deref", "over_deref_mut"}

\* this call repeats the previous one: the same method with the same function
\* on the same receiver (the binding left as the previous call left it, or a
\* receiver of the value the previous call started from)
Repeats(op, f) ==
  /\ last.op = op
  /\ last.f = f
  /\ \/ last.pre = heap
     \/ ret # NoneYet /\ op \in RefOps

\* the caller's side of one method call: r is what the method did
Finish(op, f, r) ==
  /\ heap' = r.heap
  /\ ret' = r.out
  /\ calls' = calls + r.n
  /\ ops' = ops + 1
  /\ last' = [op |-> op, f |-> f, pre |-> heap, seen |-> r.seen,
              fout |-> r.fout, ret |-> r.out]
  /\ same' = Repeats(op, f)
  /\ UNCHANGED overflowChecks

CanCall(op, f) == ops < MaxOps /\ Usable(heap) /\ Accepts(f, ViewOf(op, heap), heap)

Over ==
  \E f \in Fns :
    /\ CanCall("over", f)
    /\ Finish("over", f, over(f, heap, overflowChecks))

OverRef ==
  \E f \in Fns :
    /\ CanCall("over_ref", f)
    /\ Finish("over_ref", f, over_ref(f, heap, overflowChecks))

OverMut ==
  \E f \in Fns :
    /\ CanCall("over_mut", f)
    /\ Finish("over_mut", f, over_mut(f, heap, overflowChecks))

OverDeref ==
  \E f \in Fns :
    /\ HasDeref(heap)
    /\ CanCall("over_deref", f)
    /\ Finish("over_deref", f, over_deref(f, heap, overflowChecks))

OverDerefMut ==
  \E f \in Fns :
    /\ HasDerefMut(heap)
    /\ CanCall("over_deref_mut", f)
    /\ Finish("over_deref_mut", f, over_deref_mut(f, heap, overflowChecks))

\* the caller binds a new receiver (and drops the previous result)
Rebind ==
  /\ ops < MaxOps
  /\ ret # NoneYet
  /\ heap' \in LaterHeaps(last.pre)
  /\ heap' # heap
  /\ ret' = NoneYet
  /\ UNCHANGED <<calls, ops, overflowChecks, last, same>>

\* the caller chains: the result of the last call is the next receiver
Chain ==
  /\ ret.k \notin {"none", "panic"}
  /\ heap' = [heap EXCEPT !["v"] = ret]
  /\ ret' = NoneYet
  /\ UNCHANGED <<calls, ops, overflowChecks, last, same>>

Next ==
  \/ Over
  \/ OverRef
  \/ OverMut
  \/ OverDeref
  \/ OverDerefMut
  \/ Rebind
  \/ Chain

Spec == Init /\ [][Next]_vars

TypeOK ==
  /\ calls \in 0..(2 * MaxOps)
  /\ ops \in 0..MaxOps
  /\ overflowChecks \in BOOLEAN
  /\ DOMAIN heap = Locs

\* ------------------------------------------------------------------ claims
\* the last action was a method call: ret and heap are what that call left
JustCalled == ret # NoneYet

\* C1: over(v, f) returns exactly f(v): what the by-value transform returned
\* is what f yields on the receiver value the caller had; "foo" through Some is
\* Some("foo") and 5 through "multiply by 2" is 10.
C1_OverReturnsFOfV ==
  last.op = "over" =>
    /\ last.ret = Apply(last.f, last.pre["v"], TakeSelf(last.pre), overflowChecks).out
    /\ last.seen = last.pre["v"]
    /\ (last.f.nm = "some" /\ last.pre["v"] = StringV("a")) =>
         last.ret = Ctor("Some", StringV("a"))
    /\ (last.f.nm = "double" /\ last.pre["v"] = IntV(5)) => last.ret = IntV(10)

C1_Witness ==
  /\ last.op = "over"
  /\ last.f.nm = "some"
  /\ last.pre["v"] = StringV("a")
  /\ last.pre["a"] = StrV(Foo)
  /\ ret = Ctor("Some", StringV("a"))
  /\ heap["a"] = StrV(Foo)

\* C2: over_ref(v, f) returns f(&v) and the receiver (with everything it
\* owns) holds after the call what it held before.
C2_OverRefReadsOnly ==
  last.op = "over_ref" =>
    /\ last.ret = Apply(last.f, RefV("v"), last.pre, overflowChecks).out
    /\ JustCalled => heap = last.pre

C2_Witness ==
  /\ last.op = "over_ref"
  /\ last.f.nm = "type_name"
  /\ JustCalled
  /\ last.pre["v"] = BoxV("a")
  /\ heap["v"] = BoxV("a")
  /\ ret = TypeV(<<"Box", "i32">>)

\* C3: after over_mut(v, f) the caller's v is what f left behind the passed-in
\* reference and the call returns what f returned, not v: 5 through
\* "multiply by 3 then add 1" leaves 16 and returns unit; replace returns the
\* old value and leaves the new one.
C3_OverMutMutatesInPlace ==
  last.op = "over_mut" =>
    LET a == Apply(last.f, RefMutV("v"), last.pre, overflowChecks)
    IN  /\ last.ret = a.out
        /\ JustCalled => heap = a.heap
        /\ (JustCalled /\ last.f.nm = "mul3add1" /\ last.pre["v"] = IntV(5)) =>
             heap["v"] = IntV(16) /\ ret = UnitV
        /\ (JustCalled /\ last.f.nm = "replace") =>
             heap["v"] = IntV(last.f.y) /\ ret = last.pre["v"]

C3_Witness ==
  /\ last.op = "over_mut"
  /\ last.f.nm = "mul3add1"
  /\ last.pre["v"] = IntV(5)
  /\ heap["v"] = IntV(16)
  /\ ret = UnitV

\* C4: over_deref(w, f) returns f(&t) for t the target of w: f is applied to
\* the target and not to the wrapper, w and t are unchanged, and the length
\* of the String "Hello, world!" is 13.
C4_OverDerefAppliesToTarget ==
  last.op = "over_deref" =>
    /\ last.ret = Apply(last.f, RefV(last.pre["v"].loc), last.pre, overflowChecks).out
    /\ last.seen = RefV(last.pre["v"].loc)
    /\ last.seen # RefV("v")
    /\ JustCalled => heap = last.pre
    /\ (last.f.nm = "len" /\ last.pre["a"] = StrV(Hello)) => last.ret = IntV(13)

C4_Witness ==
  /\ last.op = "over_deref"
  /\ last.f.nm = "len"
  /\ last.pre["v"] = StringV("a")
  /\ last.pre["a"] = StrV(Hello)
  /\ ret = IntV(13)
  /\ heap = last.pre

C6_ExactlyOneCallPerOp == calls = ops

C6_Witness ==
  /\ ops >= 2
  /\ calls = ops
  /\ last.op = "over_deref_mut"
  /\ IsPanic(last.fout)

\* C7: a failure of f (an Err value or a panic) is the outcome of the
\* operation, unchanged, and the operation fails only when f did.
C7_FailurePassesThrough ==
  last.op # "none" =>
    /\ IsFailure(last.fout) => last.ret = last.fout
    /\ IsFailure(last.ret) => last.ret = last.fout
    /\ JustCalled => ret = last.ret

C7_Witness ==
  /\ last.op = "over_mut"
  /\ last.f.nm = "mul3add1"
  /\ JustCalled
  /\ IsPanic(last.fout)
  /\ ret = PanicV("overflow")

\* C8: a call that repeats the previous call with a function that does not
\* mutate yields the same result, and a reference-taking operation leaves the
\* receiver after the second call as it was after the first.
C8_Idempotent ==
  [][(ops' = ops + 1 /\ same' /\ ~Mutates(last'.f)) =>
       /\ ret' = last.ret
       /\ last'.op \in RefOps => heap' = heap]_vars

C8_Witness ==
  /\ same
  /\ JustCalled
  /\ last.op = "over_deref_mut"
  /\ last.f.nm = "read"
  /\ ret = IntV(5)

\* C9: over on a receiver that is a unique reference r to x hands f the
\* reference r itself: with f = replace-by-y, the call returns the old x as
\* an owned value and the referent holds y afterwards.
C9_OverOnUniqueRef ==
  (last.op = "over" /\ last.pre["v"] = RefMutV("a") /\ last.f.nm = "replace") =>
    /\ last.seen = RefMutV("a")
    /\ last.ret = last.pre["a"]
    /\ IsPlainInt(last.ret)
    /\ JustCalled => heap["a"] = IntV(last.f.y) /\ heap["v"] = Moved

C9_Witness ==
  /\ last.op = "over"
  /\ last.f = Fn("replace", 7)
  /\ last.pre["v"] = RefMutV("a")
  /\ last.pre["a"] = IntV(5)
  /\ ret = IntV(5)
  /\ heap["a"] = IntV(7)

\* C10: for a wrapper w whose target w2 is itself a wrapper of t, over_deref
\* and over_deref_mut hand f a view of w2 (one level down: not w, not t),
\* while over_ref and over_mut hand it a view of w itself.
Nested(h) == IsPointer(h["v"]) /\ IsPointer(h[h["v"].loc])

C10_OneLevelOfIndirection ==
  (last.op # "none" /\ Nested(last.pre)) =>
    LET w2 == last.pre["v"].loc
        t == last.pre[w2].loc
    IN  /\ w2 # "v" /\ t # w2 /\ t # "v"
        /\ last.op = "over_deref" => last.seen = RefV(w2)
        /\ last.op = "over_deref_mut" => last.seen = RefMutV(w2)
        /\ last.op = "over_ref" => last.seen = RefV("v")
        /\ last.op = "over_mut" => last.seen = RefMutV("v")
        /\ (last.f.nm = "type_name" /\ last.op \in {"over_deref", "over_deref_mut"}) =>
             last.ret = TypeV(TypeOf(last.pre, last.pre[w2]))
        /\ (last.f.nm = "type_name" /\ last.op \in {"over_ref", "over_mut"}) =>
             last.ret = TypeV(TypeOf(last.pre, last.pre["v"]))

C10_Witness ==
  /\ last.op = "over_deref"
  /\ last.f.nm = "type_name"
  /\ last.pre["v"] = BoxV("a")
  /\ last.pre["a"] = BoxV("b")
  /\ last.seen = RefV("a")
  /\ ret = TypeV(<<"Box", "i32">>)
====
